---------------------------- MODULE Spec2Model ----------------------------
(***************************************************************************)
(* dir2opds: the OPDS request handler (internal/service/service.go).       *)
(*                                                                         *)
(* Strings are sequences of one-character strings, so that the prefix,     *)
(* substring and Cut tests of the source are computed character by         *)
(* character.  The file system is a finite map from canonical absolute     *)
(* paths to nodes (directory, plain file, symbolic link).                  *)
(*                                                                         *)
(* A value that is used more than once is handed to a helper operator as   *)
(* an argument (the helpers are named ...Of, ...At, ...With).              *)
(***************************************************************************)
EXTENDS Integers, Sequences, FiniteSets, TLC

(***************************************************************************)
(* Characters and the Go string primitives the handler calls.              *)
(***************************************************************************)
Upper == <<"A","B","C","D","E","F","G","H","I","J","K","L","M",
           "N","O","P","Q","R","S","T","U","V","W","X","Y","Z">>

Lower == <<"a","b","c","d","e","f","g","h","i","j","k","l","m",
           "n","o","p","q","r","s","t","u","v","w","x","y","z">>

\* The characters of the model in byte order (the order of Go's string <).
Alphabet == <<" ","%",".","/","0","1","2","3","4","5","6","7","8","9">>
            \o Upper \o <<"_">> \o Lower

Ord(c) == CHOOSE i \in 1..Len(Alphabet) : Alphabet[i] = c

\* Go's s < t on strings: bytewise lexicographic.
RECURSIVE StrLess(_, _)
StrLess(s, t) ==
    IF t = <<>> THEN FALSE
    ELSE IF s = <<>> THEN TRUE
    ELSE IF Head(s) = Head(t) THEN StrLess(Tail(s), Tail(t))
    ELSE Ord(Head(s)) < Ord(Head(t))

HasPrefix(s, p) == Len(p) <= Len(s) /\ SubSeq(s, 1, Len(p)) = p

HasSuffix(s, p) == Len(p) <= Len(s) /\ SubSeq(s, Len(s) - Len(p) + 1, Len(s)) = p

\* The least member of a set of numbers, 0 for the empty set.
LeastOf(hits) == IF hits = {} THEN 0 ELSE CHOOSE i \in hits : \A j \in hits : i <= j

\* strings.Index, 1-based; 0 when sub does not occur.
Index(s, sub) ==
    LeastOf({i \in 1..(Len(s) - Len(sub) + 1) : SubSeq(s, i, i + Len(sub) - 1) = sub})

Contains(s, sub) == Index(s, sub) # 0

CutAt(s, sep, i) ==
    IF i = 0 THEN [before |-> s, after |-> <<>>, found |-> FALSE]
    ELSE [before |-> SubSeq(s, 1, i - 1),
          after  |-> SubSeq(s, i + Len(sep), Len(s)),
          found  |-> TRUE]

\* strings.Cut: the text before and after the first occurrence of sep.
Cut(s, sep) == CutAt(s, sep, Index(s, sep))

ToLowerChar(c) ==
    IF \E i \in 1..Len(Upper) : Upper[i] = c
    THEN Lower[CHOOSE i \in 1..Len(Upper) : Upper[i] = c]
    ELSE c

ToLower(s) == [i \in 1..Len(s) |-> ToLowerChar(s[i])]

Slash == <<"/">>

\* strings.Split(s, "/").
RECURSIVE SplitSlash(_)
SplitAt(c) == IF c.found THEN <<c.before>> \o SplitSlash(c.after) ELSE <<c.before>>

SplitSlash(s) == SplitAt(Cut(s, Slash))

RECURSIVE JoinSlash(_)
JoinSlash(segs) ==
    IF segs = <<>> THEN <<>>
    ELSE IF Len(segs) = 1 THEN segs[1]
    ELSE segs[1] \o Slash \o JoinSlash(Tail(segs))

DotDot == <<".", ".">>

Dot == <<".">>

\* The element stack of filepath.Clean on a rooted path: empty and "."
\* elements vanish, ".." removes the element before it and vanishes at the root.
RECURSIVE CleanSegs(_, _)
CleanSegs(stack, rest) ==
    IF rest = <<>> THEN stack
    ELSE IF Head(rest) = <<>> \/ Head(rest) = Dot THEN CleanSegs(stack, Tail(rest))
    ELSE IF Head(rest) = DotDot
         THEN CleanSegs(IF stack = <<>> THEN stack
                        ELSE SubSeq(stack, 1, Len(stack) - 1), Tail(rest))
    ELSE CleanSegs(Append(stack, Head(rest)), Tail(rest))

\* filepath.Clean of a rooted path.
Clean(path) == Slash \o JoinSlash(CleanSegs(<<>>, SplitSlash(path)))

\* filepath.Join(a, b): the elements joined by "/" and cleaned.
Join(a, b) ==
    IF a = <<>> THEN Clean(b)
    ELSE IF b = <<>> THEN Clean(a)
    ELSE Clean(a \o Slash \o b)

LastOf(segs) == IF segs = <<>> THEN Slash ELSE segs[Len(segs)]

\* filepath.Base of a rooted path.
Base(path) == LastOf(CleanSegs(<<>>, SplitSlash(path)))

AllButLastOf(segs) ==
    IF segs = <<>> THEN Slash ELSE Slash \o JoinSlash(SubSeq(segs, 1, Len(segs) - 1))

\* filepath.Dir of a rooted path.
Dir(path) == AllButLastOf(CleanSegs(<<>>, SplitSlash(path)))

(***************************************************************************)
(* The file system.  A node is a directory, a plain file or a symbolic     *)
(* link (with an absolute target); mtime is its modification time.         *)
(***************************************************************************)
P(segs) == Slash \o JoinSlash(segs)

DirNode == [kind |-> "dir", target |-> <<>>, mtime |-> 0]

FileNode(t) == [kind |-> "file", target |-> <<>>, mtime |-> t]

LinkNode(to) == [kind |-> "link", target |-> to, mtime |-> 0]

\* A directory that may be entered but not listed (no read permission).
LockedDirNode == [kind |-> "lockeddir", target |-> <<>>, mtime |-> 0]

IsDirKind(kind) == kind = "dir" \/ kind = "lockeddir"

\* The names used in the trees.
Name ==
    [ S |-> <<"s">>,
      B |-> <<"b">>,
      BP |-> <<"b","p">>,
      O |-> <<"o">>,
      A |-> <<"a">>,
      E |-> <<"e">>,
      Xe |-> <<"x",".","e">>,
      Xopf |-> <<"x",".","o","p","f">>,
      DotX |-> <<".","x">>,
      DotD |-> <<".","d">>,
      X |-> <<"x">>,
      DotT |-> <<".","t">>,
      UpperXe |-> <<"X",".","e">>,
      Y |-> <<"y">>,
      L |-> <<"l">>,
      M |-> <<"m">>,
      K |-> <<"k">>,
      N |-> <<"n">>,
      Nope |-> <<"n","o","p","e">>,
      UpperD |-> <<"D">>,
      XPercent |-> <<"x", "%">>,
      XSpaceY |-> <<"x", " ", "y">>,
      AA |-> <<"a", "a">>,
      AX |-> <<"a", "x">> ]

\* The trusted root /s/b, a sibling /s/bp whose path starts with the same
\* characters, and an unrelated directory /s/o.
RootPath == P(<<Name.S, Name.B>>)

SiblingPath == P(<<Name.S, Name.BP>>)

OtherPath == P(<<Name.S, Name.O>>)

\* Always there: the root with a directory a, an empty directory e and a
\* dot directory .t holding a book; outside it the sibling and /s/o.
Skeleton ==
    { <<Slash, DirNode>>,
      <<P(<<Name.S>>), DirNode>>,
      <<RootPath, DirNode>>,
      <<SiblingPath, DirNode>>,
      <<P(<<Name.S, Name.BP, Name.Xe>>), FileNode(1)>>,
      <<OtherPath, DirNode>>,
      <<P(<<Name.S, Name.O, Name.Y>>), FileNode(1)>>,
      <<P(<<Name.S, Name.B, Name.A>>), DirNode>>,
      <<P(<<Name.S, Name.B, Name.E>>), DirNode>>,
      <<P(<<Name.S, Name.B, Name.DotT>>), DirNode>>,
      <<P(<<Name.S, Name.B, Name.DotT, Name.Xe>>), FileNode(2)>> }

\* Books in a: x.e and the companion file x.opf.
GroupBooks ==
    { <<P(<<Name.S, Name.B, Name.A, Name.Xe>>), FileNode(3)>>,
      <<P(<<Name.S, Name.B, Name.A, Name.Xopf>>), FileNode(3)>> }

\* Dot entries below a: the file .x and the directory .d holding x.
GroupDeepDot ==
    { <<P(<<Name.S, Name.B, Name.A, Name.DotX>>), FileNode(2)>>,
      <<P(<<Name.S, Name.B, Name.A, Name.DotD>>), DirNode>>,
      <<P(<<Name.S, Name.B, Name.A, Name.DotD, Name.X>>), FileNode(1)>> }

\* Symbolic links in the root: l to the sibling, m to /s/o, k dangling.
GroupLinks ==
    { <<P(<<Name.S, Name.B, Name.L>>), LinkNode(SiblingPath)>>,
      <<P(<<Name.S, Name.B, Name.M>>), LinkNode(OtherPath)>>,
      <<P(<<Name.S, Name.B, Name.K>>), LinkNode(P(<<Name.S, Name.B, Name.Nope>>))>> }

\* A plain file directly in the root.
GroupTopFile == { <<P(<<Name.S, Name.B, Name.UpperXe>>), FileNode(2)>> }

\* More files than the newest feed may hold, in the directory n.
MaxBigFiles == 15

BigNames == <<"0","1","2","3","4","5","6","7","8","9",
              "A","B","C","D","E","F","G","H">>

GroupBig ==
    { <<P(<<Name.S, Name.B, Name.N>>), DirNode>> }
    \cup { <<P(<<Name.S, Name.B, Name.N, <<BigNames[i]>> >>), FileNode(1 + (i % 3))>> : i \in 1..MaxBigFiles }

Groups == <<GroupBooks, GroupDeepDot, GroupLinks, GroupTopFile, GroupBig>>

MkFs(nodes) == [p \in {e[1] : e \in nodes} |-> (CHOOSE e \in nodes : e[1] = p)[2]]

\* The tree with the groups chosen by on (a set of indexes of Groups).
Tree(on) == MkFs(Skeleton \cup UNION {Groups[i] : i \in on})

\* lstat: the node at a canonical path, no link followed.
Exists(f, p) == p \in DOMAIN f

\* The links filepath.EvalSymlinks follows before it gives up.
MaxLinkHops == 3

ParentOf(d) == IF d = Slash THEN <<>> ELSE d

\* filepath.EvalSymlinks, element by element: dest is the canonical prefix
\* resolved so far (<<>> for the root), rest the elements left, fuel the
\* links that may still be followed.
RECURSIVE WalkSymlinks(_, _, _, _)
WalkSymlinksAt(f, dest, rest, fuel, p) ==
    IF ~Exists(f, p) THEN [ok |-> FALSE, path |-> <<>>]
    ELSE IF f[p].kind = "link"
         THEN IF fuel = 0 THEN [ok |-> FALSE, path |-> <<>>]
              ELSE WalkSymlinks(f, <<>>, SplitSlash(f[p].target) \o Tail(rest), fuel - 1)
    ELSE IF Tail(rest) # <<>> /\ ~IsDirKind(f[p].kind) THEN [ok |-> FALSE, path |-> <<>>]
    ELSE WalkSymlinks(f, p, Tail(rest), fuel)

WalkSymlinks(f, dest, rest, fuel) ==
    IF rest = <<>> THEN [ok |-> TRUE, path |-> IF dest = <<>> THEN Slash ELSE dest]
    ELSE IF Head(rest) = <<>> \/ Head(rest) = Dot THEN WalkSymlinks(f, dest, Tail(rest), fuel)
    ELSE IF Head(rest) = DotDot
         THEN WalkSymlinks(f, IF dest = <<>> THEN dest ELSE ParentOf(Dir(dest)),
                           Tail(rest), fuel)
    ELSE WalkSymlinksAt(f, dest, rest, fuel, dest \o Slash \o Head(rest))

\* filepath.EvalSymlinks: the canonical path, or an error.
EvalSymlinks(f, path) == WalkSymlinks(f, <<>>, SplitSlash(path), MaxLinkHops)

StatOf(f, r) ==
    IF r.ok THEN [err |-> FALSE, isDir |-> IsDirKind(f[r.path].kind), mtime |-> f[r.path].mtime]
    ELSE [err |-> TRUE, isDir |-> FALSE, mtime |-> 0]

\* os.Stat: follows links; err when the path does not resolve.
Stat(f, path) == StatOf(f, EvalSymlinks(f, path))

\* The strings of the set names as a sequence in increasing order.
RECURSIVE SortNames(_)
SortNamesWith(names, least) == <<least>> \o SortNames(names \ {least})

SortNames(names) ==
    IF names = {} THEN <<>>
    ELSE SortNamesWith(names, CHOOSE n \in names : \A m \in names \ {n} : StrLess(n, m))

ChildNames(f, dir) ==
    {Base(p) : p \in {q \in DOMAIN f : q # Slash /\ Dir(q) = dir}}

ChildPath(dir, name) == IF dir = Slash THEN dir \o name ELSE dir \o Slash \o name

DirEntriesOf(f, dir, names) ==
    [i \in 1..Len(names) |->
        [name |-> names[i], isDir |-> IsDirKind(f[ChildPath(dir, names[i])].kind)]]

ReadDirOf(f, r) ==
    IF r.ok /\ f[r.path].kind = "dir"
    THEN DirEntriesOf(f, r.path, SortNames(ChildNames(f, r.path)))
    ELSE <<>>

\* os.ReadDir: the entries of the directory path resolves to, sorted by
\* name; an entry's IsDir is that of the entry itself (a link is no
\* directory).  On an error (no directory, or one that may not be listed)
\* there are no entries.
ReadDir(f, path) == ReadDirOf(f, EvalSymlinks(f, path))

\* filepath.WalkDir: root, then each directory's entries in name order, a
\* directory's subtree right after it; links are not followed.  Each visit
\* is a call of the callback: the path, the entry's name and IsDir, and
\* whether the call reports an error.  A directory that cannot be listed is
\* visited, and then visited again with the error of its listing.
Visit(path, isDir, err) == [path |-> path, name |-> Base(path), isDir |-> isDir, err |-> err]

RECURSIVE WalkDir(_, _)

RECURSIVE WalkDirEntries(_, _, _)
WalkDirEntries(f, dir, names) ==
    IF names = <<>> THEN <<>>
    ELSE WalkDir(f, ChildPath(dir, Head(names))) \o WalkDirEntries(f, dir, Tail(names))

WalkDir(f, path) ==
    IF ~Exists(f, path) THEN <<>>
    ELSE <<Visit(path, IsDirKind(f[path].kind), FALSE)>>
         \o (IF f[path].kind = "dir"
             THEN WalkDirEntries(f, path, SortNames(ChildNames(f, path)))
             ELSE IF f[path].kind = "lockeddir" THEN <<Visit(path, TRUE, TRUE)>>
             ELSE <<>>)

(***************************************************************************)
(* service.go: constants, the visibility rule, the path classifier and the *)
(* path guard.                                                             *)
(***************************************************************************)
pathTypeFile == 0

pathTypeDirOfDirs == 1

pathTypeDirOfFiles == 2

currentDirectory == Dot

parentDirectory == DotDot

hiddenFilePrefix == Dot

navigationType == "application/atom+xml;profile=opds-catalog;kind=navigation"

acquisitionType == "application/atom+xml;profile=opds-catalog;kind=acquisition"

searchDefinitionPath == <<"/","o","p","e","n","s","e","a","r","c","h",".","x","m","l">>

searchPath == <<"/","s","e","a","r","c","h">>

\* The substrings that mark a calibre companion file.
CalibreMarks ==
    { <<".","o","p","f">>,
      <<"c","o","v","e","r",".">>,
      <<"m","e","t","a","d","a","t","a",".","d","b">>,
      <<"m","e","t","a","d","a","t","a","_","d","b","_","p","r","e","f","s","_","b","a","c","k","u","p",".","j","s","o","n">>,
      <<".","c","a","l","t","r","a","s","h">>,
      <<".","c","a","l","n","o","t","e","s">> }

\* fileShouldBeIgnored with the dot rule tried before the "." and ".." rule.
fileShouldBeIgnoredDotFirst(filename, hideCalibreFiles, hideDotFiles) ==
    IF hideDotFiles /\ HasPrefix(filename, hiddenFilePrefix) THEN TRUE
    ELSE IF filename = currentDirectory \/ filename = parentDirectory THEN FALSE
    ELSE IF hideCalibreFiles /\ \E m \in CalibreMarks : Contains(filename, m) THEN TRUE
    ELSE FALSE

fileShouldBeIgnored(filename, hideCalibreFiles, hideDotFiles) ==
    IF filename = currentDirectory \/ filename = parentDirectory THEN FALSE
    ELSE IF hideDotFiles /\ HasPrefix(filename, hiddenFilePrefix) THEN TRUE
    ELSE IF hideCalibreFiles /\ \E m \in CalibreMarks : Contains(filename, m) THEN TRUE
    ELSE FALSE

\* getPathTypeOf with the loop turned around: a directory entry makes it a
\* directory of directories.
getPathTypeAnyDir(fi, dirEntries) ==
    IF fi.err THEN [panic |-> TRUE, type |-> pathTypeFile, ops |-> <<"Stat">>]
    ELSE IF ~fi.isDir THEN [panic |-> FALSE, type |-> pathTypeFile, ops |-> <<"Stat">>]
    ELSE IF \E i \in 1..Len(dirEntries) : dirEntries[i].isDir
         THEN [panic |-> FALSE, type |-> pathTypeDirOfDirs, ops |-> <<"Stat", "ReadDir">>]
    ELSE [panic |-> FALSE, type |-> pathTypeDirOfFiles, ops |-> <<"Stat", "ReadDir">>]

\* isFile on the entries of a directory: an entry that is no directory (a
\* plain file or a link) makes it a directory of files.
getPathTypeOf(fi, dirEntries) ==
    IF fi.err THEN [panic |-> TRUE, type |-> pathTypeFile, ops |-> <<"Stat">>]
    ELSE IF ~fi.isDir THEN [panic |-> FALSE, type |-> pathTypeFile, ops |-> <<"Stat">>]
    ELSE IF \E i \in 1..Len(dirEntries) : ~dirEntries[i].isDir
         THEN [panic |-> FALSE, type |-> pathTypeDirOfFiles, ops |-> <<"Stat", "ReadDir">>]
    ELSE [panic |-> FALSE, type |-> pathTypeDirOfDirs, ops |-> <<"Stat", "ReadDir">>]

\* getPathType: the stat follows links; when it fails, isFile is called on a
\* nil FileInfo, which panics.
getPathType(f, dirpath) == getPathTypeOf(Stat(f, dirpath), ReadDir(f, dirpath))

inTrustedRoot(path, trustedRoot) == HasPrefix(path, trustedRoot)

verifyPathOf(c, r, trustedRoot) ==
    IF ~r.ok THEN [path |-> c, err |-> TRUE]
    ELSE IF ~inTrustedRoot(r.path, trustedRoot) THEN [path |-> r.path, err |-> TRUE]
    ELSE [path |-> r.path, err |-> FALSE]

verifyPath(f, path, trustedRoot) ==
    verifyPathOf(Clean(path), EvalSymlinks(f, Clean(path)), trustedRoot)

\* The place of the last dot of b, Len(b) + 1 when it has none.
LastDot(b) == Len(b) + 1 - LeastOf({Len(b) + 1 - i : i \in {j \in 1..Len(b) : b[j] = "."}})

ExtAt(b, i) == IF i > Len(b) THEN <<>> ELSE SubSeq(b, i, Len(b))

ExtOf(b) == ExtAt(b, LastDot(b))

\* filepath.Ext: the suffix of the last element from its last dot on.
Ext(name) == ExtOf(LastOf(SplitSlash(name)))

ImageExts == { <<".","p","n","g">>, <<".","j","p","g">>, <<".","j","p","e","g">>, <<".","g","i","f">> }

getRel(name, pathType) ==
    IF pathType = pathTypeDirOfFiles \/ pathType = pathTypeDirOfDirs THEN "subsection"
    ELSE IF Ext(name) \in ImageExts THEN "http://opds-spec.org/image/thumbnail"
    ELSE "http://opds-spec.org/acquisition"

(***************************************************************************)
(* Feeds.  An entry keeps its id, title, link relation and href, and the   *)
(* file system path it stands for; a feed its id, title, updated time,     *)
(* entries and (search results only) totalResults.                         *)
(***************************************************************************)
NoTotal == -1

Feed(id, title, updated, entries, total) ==
    [id |-> id, title |-> title, updated |-> updated, entries |-> entries, total |-> total]

NoFeed == Feed(<<>>, <<>>, 0, <<>>, NoTotal)

Entry(id, title, rel, href, path) ==
    [id |-> id, title |-> title, rel |-> rel, href |-> href, path |-> path]

\* url.PathEscape: letters, digits, "_" and "." stay; the other characters of
\* the model become %XX.
EscapeChar(c) ==
    IF c = " " THEN <<"%", "2", "0">>
    ELSE IF c = "%" THEN <<"%", "2", "5">>
    ELSE IF c = "/" THEN <<"%", "2", "F">>
    ELSE <<c>>

RECURSIVE PathEscape(_)
PathEscape(str) ==
    IF str = <<>> THEN <<>> ELSE EscapeChar(Head(str)) \o PathEscape(Tail(str))

\* One turn of the loop of makeFeed: the entry is added to the builder acc.
makeFeedEntry(acc, req, name, path, pt) ==
    [panic   |-> pt.panic,
     entries |-> IF pt.panic THEN acc.entries
                 ELSE Append(acc.entries,
                             Entry(req.Path \o name, name, getRel(name, pt.type),
                                   Join(req.RequestURI, PathEscape(name)), path)),
     ops     |-> acc.ops \o pt.ops]

\* The loop of makeFeed over the directory entries.
RECURSIVE makeFeedEntries(_, _, _, _, _, _)
makeFeedEntries(s, f, fpath, req, dirEntries, acc) ==
    IF dirEntries = <<>> \/ acc.panic THEN acc
    ELSE IF fileShouldBeIgnored(Head(dirEntries).name, s.HideCalibreFiles, s.HideDotFiles)
         THEN makeFeedEntries(s, f, fpath, req, Tail(dirEntries), acc)
    ELSE makeFeedEntries(s, f, fpath, req, Tail(dirEntries),
             makeFeedEntry(acc, req, Head(dirEntries).name,
                           Join(fpath, Head(dirEntries).name),
                           getPathType(f, Join(fpath, Head(dirEntries).name))))

makeFeedOf(now, req, built) ==
    [panic |-> built.panic,
     feed  |-> Feed(req.Path, <<"C","a","t","a","l","o","g"," ","i","n"," ">> \o req.Path, now, built.entries, NoTotal),
     ops   |-> built.ops]

makeFeed(s, f, now, fpath, req) ==
    makeFeedOf(now, req,
               makeFeedEntries(s, f, fpath, req, ReadDir(f, fpath),
                               [panic |-> FALSE, entries |-> <<>>, ops |-> <<"ReadDir">>]))

\* The callback of makeSearchResult on one visit of the walk.
makeSearchEntry(s, query, file, pathRelativeToContentRoot, acc) ==
    IF ~file.isDir
       /\ ~fileShouldBeIgnored(pathRelativeToContentRoot, s.HideCalibreFiles, s.HideDotFiles)
       /\ Contains(ToLower(file.name), ToLower(query))
    THEN [entries |-> Append(acc.entries,
                             Entry(Slash \o pathRelativeToContentRoot, file.name,
                                   getRel(file.name, pathTypeFile),
                                   PathEscape(Slash \o pathRelativeToContentRoot),
                                   file.path)),
          count   |-> acc.count + 1]
    ELSE acc

\* The walk of makeSearchResult: the callback on each visit, and the walk
\* ended by the first visit that reports an error (the callback returns it).
RECURSIVE makeSearchEntries(_, _, _, _)
makeSearchEntries(s, query, visits, acc) ==
    IF visits = <<>> \/ Head(visits).err THEN acc
    ELSE makeSearchEntries(s, query, Tail(visits),
             makeSearchEntry(s, query, Head(visits),
                             Cut(Head(visits).path, s.TrustedRoot \o Slash).after, acc))

makeSearchResultOf(now, reqPath, query, built) ==
    [feed |-> Feed(reqPath, <<"F","o","l","d","e","r","s"," ","c","o","n","t","a","i","n","i","n","g"," ","f","i","l","e","s"," ","m","a","t","c","h","i","n","g"," ","q","u","e","r","y"," ">> \o query,
                   now, built.entries, NoTotal),
     size |-> built.count]

makeSearchResult(s, f, now, reqPath, query) ==
    makeSearchResultOf(now, reqPath, query,
                       makeSearchEntries(s, query, WalkDir(f, s.TrustedRoot),
                                         [entries |-> <<>>, count |-> 0]))

(***************************************************************************)
(* Responses.  status NoStatus: no status code was written.  nocache: the  *)
(* Cache-Control and Expires headers were added.  ops: the file system     *)
(* calls of the handling, in order.                                        *)
(***************************************************************************)
NoStatus == 0

Body(kind, file, feed) == [kind |-> kind, file |-> file, feed |-> feed]

NoBody == Body("none", <<>>, NoFeed)

Response(err, panic, status, ctype, nocache, body, ops) ==
    [err |-> err, panic |-> panic, status |-> status, ctype |-> ctype,
     nocache |-> nocache, body |-> body, ops |-> ops]

\* url.PathUnescape: %XX becomes the character it encodes; a % that is not
\* followed by two hexadecimal digits is an error.
HexDigits == {"0","1","2","3","4","5","6","7","8","9",
              "A","B","C","D","E","F","a","b","c","d","e","f"}

Unhex == { <<"2", "0", " ">>, <<"2", "5", "%">>, <<"2", "E", ".">>, <<"2", "e", ".">>,
           <<"2", "F", "/">>, <<"2", "f", "/">> }

UnescapeWith(c, r) == [err |-> r.err, s |-> IF r.err THEN <<>> ELSE <<c>> \o r.s]

RECURSIVE PathUnescape(_)
PathUnescape(p) ==
    IF p = <<>> THEN [err |-> FALSE, s |-> <<>>]
    ELSE IF Head(p) # "%" THEN UnescapeWith(Head(p), PathUnescape(Tail(p)))
    ELSE IF Len(p) < 3 \/ p[2] \notin HexDigits \/ p[3] \notin HexDigits
              \/ ~\E u \in Unhex : u[1] = p[2] /\ u[2] = p[3]
         THEN [err |-> TRUE, s |-> <<>>]
    ELSE UnescapeWith((CHOOSE u \in Unhex : u[1] = p[2] /\ u[2] = p[3])[3],
                      PathUnescape(SubSeq(p, 4, Len(p))))

containsDotDot(segs) == \E i \in 1..Len(segs) : segs[i] = DotDot

\* http.ServeFile: refuses a request whose URL path has a ".." element
\* (400), redirects one that ends in /index.html, and else sends the file.
ServeFile(reqPath, fPath, ops) ==
    IF containsDotDot(SplitSlash(reqPath))
    THEN Response(FALSE, FALSE, 400, "text/plain; charset=utf-8", FALSE,
                  Body("error", <<>>, NoFeed), ops)
    ELSE IF HasSuffix(reqPath, <<"/","i","n","d","e","x",".","h","t","m","l">>)
    THEN Response(FALSE, FALSE, 301, "", FALSE, Body("redirect", <<>>, NoFeed), ops)
    ELSE Response(FALSE, FALSE, 200, "file", FALSE, Body("file", fPath, NoFeed),
                  Append(ops, "Open"))

\* Handler, lines 84-100: the search definition document.
HandleSearchDefinition ==
    Response(FALSE, FALSE, 200, "application/xml", FALSE,
             Body("opensearch", <<>>, NoFeed), <<>>)

HandleSearchOf(s, res) ==
    Response(FALSE, FALSE, 200, acquisitionType, s.NoCache,
             Body("searchresult", <<>>, [res.feed EXCEPT !.total = res.size]),
             <<"WalkDir">>)

\* HandleSearch without the test of lines 106-108: an empty q is searched for.
HandleSearchAnyQuery(s, f, now, req) ==
    HandleSearchOf(s, makeSearchResult(s, f, now, req.Path, req.q))

\* Handler, lines 104-110 and 144-175: the search.
HandleSearch(s, f, now, req) ==
    IF req.q = <<>>
    THEN Response(TRUE, FALSE, NoStatus, "", FALSE, NoBody, <<>>)
    ELSE HandleSearchOf(s, makeSearchResult(s, f, now, req.Path, req.q))

\* Handler, lines 144-175: the feed of the directory fPath.
HandleDir(s, pt, made) ==
    IF made.panic
    THEN Response(FALSE, TRUE, NoStatus, "", FALSE, NoBody,
                  <<"EvalSymlinks", "Stat">> \o pt.ops \o pt.ops \o made.ops)
    ELSE IF pt.type = pathTypeDirOfFiles
    THEN Response(FALSE, FALSE, 200, acquisitionType, s.NoCache,
                  Body("acquisitionfeed", <<>>, made.feed),
                  <<"EvalSymlinks", "Stat">> \o pt.ops \o pt.ops \o made.ops)
    ELSE Response(FALSE, FALSE, 200, navigationType, s.NoCache,
                  Body("navigationfeed", <<>>, made.feed),
                  <<"EvalSymlinks", "Stat">> \o pt.ops \o pt.ops \o made.ops)

\* Handler, lines 132-141: fPath is a file.
HandleFile(s, req, fPath, pathRelativeToContentRoot, pt) ==
    IF fileShouldBeIgnored(pathRelativeToContentRoot, s.HideCalibreFiles, s.HideDotFiles)
    THEN Response(FALSE, FALSE, 404, "", FALSE, NoBody, <<"EvalSymlinks", "Stat">> \o pt.ops)
    ELSE ServeFile(req.Path, fPath, <<"EvalSymlinks", "Stat">> \o pt.ops)

\* HandlePathOf with the stat of line 124 made before the guard of line 115.
HandlePathStatFirst(s, f, now, req, fPath, v, st, pt) ==
    IF st.err THEN Response(TRUE, FALSE, 404, "", FALSE, NoBody, <<"Stat">>)
    ELSE IF v.err THEN Response(FALSE, FALSE, 404, "", FALSE, NoBody, <<"Stat", "EvalSymlinks">>)
    ELSE IF pt.panic
         THEN Response(FALSE, TRUE, NoStatus, "", FALSE, NoBody,
                       <<"Stat", "EvalSymlinks">> \o pt.ops)
    ELSE IF pt.type = pathTypeFile
         THEN HandleFile(s, req, fPath, Cut(fPath, s.TrustedRoot \o Slash).after, pt)
    ELSE HandleDir(s, pt, makeFeed(s, f, now, fPath, req))

HandlePathOf(s, f, now, req, fPath, v, st, pt) ==
    IF v.err THEN Response(FALSE, FALSE, 404, "", FALSE, NoBody, <<"EvalSymlinks">>)
    ELSE IF st.err THEN Response(TRUE, FALSE, 404, "", FALSE, NoBody, <<"EvalSymlinks", "Stat">>)
    ELSE IF pt.panic
         THEN Response(FALSE, TRUE, NoStatus, "", FALSE, NoBody,
                       <<"EvalSymlinks", "Stat">> \o pt.ops)
    ELSE IF pt.type = pathTypeFile
         THEN HandleFile(s, req, fPath, Cut(fPath, s.TrustedRoot \o Slash).after, pt)
    ELSE HandleDir(s, pt, makeFeed(s, f, now, fPath, req))

HandlePathAt(s, f, now, req, fPath) ==
    HandlePathOf(s, f, now, req, fPath, verifyPath(f, fPath, s.TrustedRoot),
                 Stat(f, fPath), getPathType(f, fPath))

\* Handler, lines 112-141 and 144-175: a path below the trusted root, served
\* as a file or as the feed of a directory.  rest is joined to the root.
HandlePath(s, f, now, req, rest) == HandlePathAt(s, f, now, req, Join(s.TrustedRoot, rest))

(***************************************************************************)
(* The routes that are not in service.go as it is here: the root menu, the *)
(* newest feed and the /shelf prefix, after the design (sections 4.5-4.7)  *)
(* and the expected documents of the handler test.                         *)
(***************************************************************************)
rootPath == Slash

newPath == <<"/","n","e","w">>

shelfPath == <<"/","s","h","e","l","f">>

\* Route without the /shelf prefix: every path that is no fixed route is
\* looked up below the trusted root.
RouteFallThrough(urlPath) ==
    IF urlPath = searchDefinitionPath THEN "searchDefinition"
    ELSE IF urlPath = rootPath THEN "root"
    ELSE IF urlPath = newPath THEN "new"
    ELSE IF urlPath = searchPath THEN "search"
    ELSE "shelf"

\* Section 4.7: the route of a decoded URL path.
Route(urlPath) ==
    IF urlPath = searchDefinitionPath THEN "searchDefinition"
    ELSE IF urlPath = rootPath THEN "root"
    ELSE IF urlPath = newPath THEN "new"
    ELSE IF urlPath = searchPath THEN "search"
    ELSE IF HasPrefix(urlPath, shelfPath) THEN "shelf"
    ELSE "other"

rootMenuEntries ==
    << Entry(newPath, <<"N","e","w","e","s","t"," ","b","o","o","k","s">>, "http://opds-spec.org/sort/new", newPath, <<>>),
       Entry(shelfPath, <<"A","l","l"," ","b","o","o","k","s">>, "http://opds-spec.org/shelf", shelfPath, <<>>) >>

\* makeRootMenu with the time of the build in place of the clock.
makeRootMenuFixedTime(now) == Feed(rootPath, <<"H","o","m","e">>, 1, rootMenuEntries, NoTotal)

\* Section 4.6: the root menu, two fixed entries.
makeRootMenu(now) == Feed(rootPath, <<"H","o","m","e">>, now, rootMenuEntries, NoTotal)

\* Section 4.3: the visibility rule on one name.
isHidden(s, name) == fileShouldBeIgnored(name, s.HideCalibreFiles, s.HideDotFiles)

\* Section 4.5: a leaf is kept when it classifies as a file.
isFileLeaf(st) == ~st.err /\ ~st.isDir

\* Section 4.5: the paths of the leaves of the walk from path, a hidden
\* directory pruned with its subtree and a hidden leaf left out.
RECURSIVE walkLeaves(_, _, _)

RECURSIVE walkLeavesOf(_, _, _, _)
walkLeavesOf(s, f, dir, names) ==
    IF names = <<>> THEN {}
    ELSE (IF isHidden(s, Head(names)) THEN {}
          ELSE walkLeaves(s, f, ChildPath(dir, Head(names))))
         \cup walkLeavesOf(s, f, dir, Tail(names))

walkLeaves(s, f, path) ==
    IF ~Exists(f, path) THEN {}
    ELSE IF f[path].kind = "dir"
         THEN walkLeavesOf(s, f, path, SortNames(ChildNames(f, path)))
    ELSE IF isFileLeaf(Stat(f, path)) THEN {path}
    ELSE {}

NewerOf(a, b, ta, tb) ==
    \/ ta > tb
    \/ ta = tb /\ StrLess(Base(a), Base(b))
    \/ ta = tb /\ Base(a) = Base(b) /\ StrLess(a, b)

\* Section 4.5: a is listed before b: later modification first, then the
\* lower name (then the lower path).
Newer(f, a, b) == NewerOf(a, b, Stat(f, a).mtime, Stat(f, b).mtime)

RECURSIVE SortNewest(_, _)
SortNewestWith(f, paths, first) == <<first>> \o SortNewest(f, paths \ {first})

SortNewest(f, paths) ==
    IF paths = {} THEN <<>>
    ELSE SortNewestWith(f, paths, CHOOSE a \in paths : \A b \in paths \ {a} : Newer(f, a, b))

\* Section 4.5: the newest feed holds the first 14.
NewestCap == 14

newestEntry(path, rel) ==
    Entry(shelfPath \o Slash \o rel, Base(path), getRel(Base(path), pathTypeFile),
          shelfPath \o Slash \o PathEscape(rel), path)

\* TakeFirst without the cap.
TakeAll(sorted, n) == sorted

TakeFirst(sorted, n) == SubSeq(sorted, 1, IF Len(sorted) < n THEN Len(sorted) ELSE n)

makeNewestOf(s, now, taken) ==
    Feed(newPath, <<"N","e","w","e","s","t"," ","b","o","o","k","s">>, now,
         [i \in 1..Len(taken) |->
             newestEntry(taken[i], Cut(taken[i], s.TrustedRoot \o Slash).after)],
         NoTotal)

makeNewest(s, f, now) ==
    makeNewestOf(s, now, TakeFirst(SortNewest(f, walkLeaves(s, f, s.TrustedRoot)), NewestCap))

\* Sections 4.1 and 4.7: the newest feed; the path guard runs on the root
\* before the walk reads the tree.
HandleNewest(s, f, now, v) ==
    IF v.err THEN Response(FALSE, FALSE, 404, "", FALSE, NoBody, <<"EvalSymlinks">>)
    ELSE Response(FALSE, FALSE, 200, navigationType, s.NoCache,
                  Body("navigationfeed", <<>>, makeNewest(s, f, now)),
                  <<"EvalSymlinks", "WalkDir">>)

HandlerOf(s, f, now, req, urlPath, route) ==
    IF route = "searchDefinition" THEN HandleSearchDefinition
    ELSE IF route = "root"
         THEN Response(FALSE, FALSE, 200, navigationType, s.NoCache,
                       Body("navigationfeed", <<>>, makeRootMenu(now)), <<>>)
    ELSE IF route = "new"
         THEN HandleNewest(s, f, now, verifyPath(f, s.TrustedRoot, s.TrustedRoot))
    ELSE IF route = "search" THEN HandleSearch(s, f, now, req)
    ELSE IF route = "shelf"
         THEN HandlePath(s, f, now, req, SubSeq(urlPath, Len(shelfPath) + 1, Len(urlPath)))
    ELSE Response(FALSE, FALSE, 404, "", FALSE, NoBody, <<>>)

HandlerAt(s, f, now, req, u) ==
    IF u.err THEN Response(TRUE, FALSE, NoStatus, "", FALSE, NoBody, <<>>)
    ELSE HandlerOf(s, f, now, req, u.s, Route(u.s))

\* Section 4.7: the handler with the routes of the design; the search
\* definition, the search and the path below the root are those of
\* service.go.
Handler(s, f, now, req) == HandlerAt(s, f, now, req, PathUnescape(req.Path))

(***************************************************************************)
(* The state machine: a tree and a configuration fixed at start, a clock   *)
(* that can be set, and requests handled one after the other.              *)
(***************************************************************************)
VARIABLES fs, opds, TimeNow, req, resp, pc

vars == <<fs, opds, TimeNow, req, resp, pc>>

MaxTime == 2

\* The request URIs sent (well-formed; the path of the URL is the URI decoded).
RequestURIs ==
    { <<"/">>,
      <<"/","n","e","w">>,
      <<"/","o","p","e","n","s","e","a","r","c","h",".","x","m","l">>,
      <<"/","s","e","a","r","c","h">>,
      <<"/","s","h","e","l","f">>,
      <<"/","s","h","e","l","f","/">>,
      <<"/","s","h","e","l","f","/","a">>,
      <<"/","s","h","e","l","f","/","a","/","x",".","e">>,
      <<"/","s","h","e","l","f","/","a","/","x",".","o","p","f">>,
      <<"/","s","h","e","l","f","/","a","/",".","x">>,
      <<"/","s","h","e","l","f","/","a","/",".","d">>,
      <<"/","s","h","e","l","f","/","a","/",".","d","/","x">>,
      <<"/","s","h","e","l","f","/",".","t">>,
      <<"/","s","h","e","l","f","/",".","t","/","x",".","e">>,
      <<"/","s","h","e","l","f","/","e">>,
      <<"/","s","h","e","l","f","/","l">>,
      <<"/","s","h","e","l","f","/","l","/","x",".","e">>,
      <<"/","s","h","e","l","f","/","m">>,
      <<"/","s","h","e","l","f","/","m","/","y">>,
      <<"/","s","h","e","l","f","/","k">>,
      <<"/","s","h","e","l","f","/","X",".","e">>,
      <<"/","s","h","e","l","f","/","n">>,
      <<"/","s","h","e","l","f","/","n","/","0">>,
      <<"/","s","h","e","l","f","/","n","o","p","e">>,
      <<"/","s","h","e","l","f","/",".",".","/","b","p">>,
      <<"/","s","h","e","l","f","/",".",".","/","b","p","/","x",".","e">>,
      <<"/","s","h","e","l","f","/",".",".","/","o">>,
      <<"/","s","h","e","l","f","/",".",".","/","b","/","a">>,
      <<"/","s","h","e","l","f","/",".",".","/","b","/","a","/","x",".","e">>,
      <<"/","a">>,
      <<"/","a","/","x",".","e">>,
      <<"/","e">>,
      <<"/","s","h","e","l","f","/","a","%","2","F","x",".","e">>,
      <<"/","s","h","e","l","f","/","%","2","5">> }

Queries == { <<"x">>, <<"X">> }

Request(uri, q) == [RequestURI |-> uri, Path |-> PathUnescape(uri).s, q |-> q]

Requests ==
    {Request(uri, <<>>) : uri \in RequestURIs}
    \cup {Request(searchPath, q) : q \in Queries}

NoRequest == [RequestURI |-> <<>>, Path |-> <<>>, q |-> <<>>]

NoResponse == Response(FALSE, FALSE, NoStatus, "", FALSE, NoBody, <<>>)

Init ==
    /\ \E on \in SUBSET (1..Len(Groups)) : fs = Tree(on)
    /\ opds \in [TrustedRoot : {RootPath}, HideCalibreFiles : BOOLEAN,
                 HideDotFiles : BOOLEAN, NoCache : BOOLEAN]
    /\ TimeNow = 1
    /\ req = NoRequest
    /\ resp = NoResponse
    /\ pc = "idle"

\* service.TimeNow is assigned between two requests (the test injects its
\* clock); the response of the request before has been delivered.
SetTimeNow(t) ==
    /\ pc # "pending"
    /\ TimeNow # t
    /\ TimeNow' = t
    /\ req' = NoRequest
    /\ resp' = NoResponse
    /\ pc' = "idle"
    /\ UNCHANGED <<fs, opds>>

\* A request arrives.
Receive(r) ==
    /\ pc # "pending"
    /\ req' = r
    /\ resp' = NoResponse
    /\ pc' = "pending"
    /\ UNCHANGED <<fs, opds, TimeNow>>

\* Handler runs on the request and leaves its response.
Handle ==
    /\ pc = "pending"
    /\ resp' = Handler(opds, fs, TimeNow, req)
    /\ pc' = "done"
    /\ UNCHANGED <<fs, opds, TimeNow, req>>

Next ==
    \/ \E t \in 1..MaxTime : SetTimeNow(t)
    \/ \E r \in Requests : Receive(r)
    \/ Handle

Spec == Init /\ [][Next]_vars

(***************************************************************************)
(* The two classifiers called on their own: getPathType on a path of the   *)
(* tree (or on one that does not exist), fileShouldBeIgnored on a name.    *)
(* req is the call, resp what it returned.                                 *)
(***************************************************************************)
Call(fn, arg) == [fn |-> fn, arg |-> arg]

\* The names fileShouldBeIgnored is called on.
CallNames ==
    { <<".">>, <<".",".">>, <<".","x">>, <<".",".","x">>, <<"x">>, <<"x",".","e">>, <<"x",".","o","p","f">>, <<".","o","p","f">>, <<"x",".","o","p","f",".","b","a","k">>,
      <<"c","o","v","e","r",".","j","p","g">>, <<"m","y","c","o","v","e","r",".","p","n","g">>, <<"c","o","v","e","r">>, <<"m","e","t","a","d","a","t","a",".","d","b">>, <<"m","e","t","a","d","a","t","a","_","d","b">>,
      <<"m","e","t","a","d","a","t","a","_","d","b","_","p","r","e","f","s","_","b","a","c","k","u","p",".","j","s","o","n">>, <<".","c","a","l","t","r","a","s","h">>, <<"x",".","c","a","l","n","o","t","e","s">>,
      <<"a","/",".","x">>, <<".","t","/","x",".","e">>, <<"a","/","x",".","o","p","f">>, <<>> }

\* The paths getPathType is called on: those of the trees, and one that
\* never exists.
CallPaths == DOMAIN Tree(1..Len(Groups)) \cup {P(<<Name.S, Name.B, Name.Nope>>)}

CallInit ==
    /\ \E on \in SUBSET (1..Len(Groups)) : fs = Tree(on)
    /\ opds \in [TrustedRoot : {RootPath}, HideCalibreFiles : BOOLEAN,
                 HideDotFiles : BOOLEAN, NoCache : {FALSE}]
    /\ TimeNow = 1
    /\ req = Call("none", <<>>)
    /\ resp = FALSE
    /\ pc = "idle"

CallGetPathType(dirpath) ==
    /\ pc = "idle"
    /\ dirpath \in DOMAIN fs \/ dirpath = P(<<Name.S, Name.B, Name.Nope>>)
    /\ req' = Call("getPathType", dirpath)
    /\ resp' = getPathType(fs, dirpath)
    /\ pc' = "called"
    /\ UNCHANGED <<fs, opds, TimeNow>>

CallFileShouldBeIgnored(filename) ==
    /\ pc = "idle"
    /\ req' = Call("fileShouldBeIgnored", filename)
    /\ resp' = fileShouldBeIgnored(filename, opds.HideCalibreFiles, opds.HideDotFiles)
    /\ pc' = "called"
    /\ UNCHANGED <<fs, opds, TimeNow>>

CallNext ==
    \/ \E dirpath \in CallPaths : CallGetPathType(dirpath)
    \/ \E filename \in CallNames : CallFileShouldBeIgnored(filename)

CallSpec == CallInit /\ [][CallNext]_vars


(***************************************************************************)
(* Trees with an unreadable directory and with names that need escaping:   *)
(* the state machine of Spec over them, with the requests that meet them.  *)
(***************************************************************************)
\* The directory D, which cannot be read, holding a book. WalkDir meets it
\* after .t and before X.e and a.
GroupLocked ==
    { <<P(<<Name.S, Name.B, Name.UpperD>>), LockedDirNode>>,
      <<P(<<Name.S, Name.B, Name.UpperD, Name.Xe>>), FileNode(1)>> }

\* Files in a whose names PathEscape changes.
GroupEscaped ==
    { <<P(<<Name.S, Name.B, Name.A, Name.XPercent>>), FileNode(1)>>,
      <<P(<<Name.S, Name.B, Name.A, Name.XSpaceY>>), FileNode(2)>> }

\* The file a/ax and the directory aa holding x.
GroupJoined ==
    { <<P(<<Name.S, Name.B, Name.A, Name.AX>>), FileNode(1)>>,
      <<P(<<Name.S, Name.B, Name.AA>>), DirNode>>,
      <<P(<<Name.S, Name.B, Name.AA, Name.X>>), FileNode(2)>> }

EdgeGroups == <<GroupLocked, GroupEscaped, GroupJoined>>

EdgeTree(on) ==
    MkFs(Skeleton \cup GroupBooks \cup GroupTopFile \cup UNION {EdgeGroups[i] : i \in on})

EdgeRequestURIs ==
    { <<"/","s","h","e","l","f">>, <<"/","s","h","e","l","f","/">>, <<"/","s","h","e","l","f","/","a">>, <<"/","s","h","e","l","f","/","a","/">>, <<"/","s","h","e","l","f","/","a","a">>, <<"/","s","h","e","l","f","/","D">>,
      <<"/","s","h","e","l","f","/","D","/","x",".","e">>, <<"/","s","h","e","l","f","/","a","/","x",".","e">>, <<"/","s","h","e","l","f","/","a","/","x","%","2","5">>, <<"/","s","h","e","l","f","/","a","/","x","%","2","0","y">>,
      <<"/","s","h","e","l","f","/","a","/","a","x">>, <<"/","n","e","w">> }

EdgeRequests ==
    {Request(uri, <<>>) : uri \in EdgeRequestURIs}
    \cup {Request(searchPath, q) : q \in Queries}

EdgeInit ==
    /\ \E on \in SUBSET (1..Len(EdgeGroups)) : fs = EdgeTree(on)
    /\ opds \in [TrustedRoot : {RootPath}, HideCalibreFiles : BOOLEAN,
                 HideDotFiles : BOOLEAN, NoCache : {FALSE}]
    /\ TimeNow = 1
    /\ req = NoRequest
    /\ resp = NoResponse
    /\ pc = "idle"

EdgeNext ==
    \/ \E t \in 1..MaxTime : SetTimeNow(t)
    \/ \E r \in EdgeRequests : Receive(r)
    \/ Handle

EdgeSpec == EdgeInit /\ [][EdgeNext]_vars

(***************************************************************************)
(* Requests handled at the same time.  net/http runs Handler in one        *)
(* goroutine per request; here req, resp and pc are indexed by goroutine,  *)
(* the walk of makeSearchResult and the loop of makeFeed advance one visit *)
(* or one directory entry per step, and the steps of the goroutines        *)
(* interleave.  The tree and the clock stay as they are.                   *)
(***************************************************************************)
MaxConc == 2

Goroutines == 1..MaxConc

\* feedBuilder and count (lines 209-215), and feedBuilder of makeFeed
\* (lines 179-184), are local variables of the call: the frame that holds
\* them belongs to the goroutine g that made the call.  In FrameShared they
\* are one set of variables used by every call.
FrameShared(g) == 1

Frame(g) == g

\* What a frame holds: the entries of the builder and count; panic and ops
\* are the model's record of a crash and of the file system calls.
NoAcc == [panic |-> FALSE, entries |-> <<>>, ops |-> <<>>, count |-> 0]

\* The frame after the callback of the walk has left found.
WalkFrame(acc, found) == [acc EXCEPT !.entries = found.entries, !.count = found.count]

\* The frame after a turn of the loop of makeFeed has left built.
FeedFrame(acc, built) ==
    [acc EXCEPT !.panic = built.panic, !.entries = built.entries, !.ops = built.ops]

Position(state, todo, acc) == [state |-> state, todo |-> todo, acc |-> acc]

ConcRequests ==
    { Request(searchPath, <<"x">>), Request(<<"/","s","h","e","l","f">>, <<>>), Request(<<"/","s","h","e","l","f","/","a","/","x",".","e">>, <<>>) }

\* Lines 104-110: the request is a search with a query.
IsSearch(r) == Route(PathUnescape(r.Path).s) = "search" /\ r.q # <<>>

\* Line 112: the path of a /shelf request joined to the trusted root.
ShelfTarget(s, r) ==
    Join(s.TrustedRoot, SubSeq(PathUnescape(r.Path).s, Len(shelfPath) + 1,
                               Len(PathUnescape(r.Path).s)))

\* Lines 112-131: the request gets as far as makeFeed.
IsListing(s, f, r) ==
    /\ Route(PathUnescape(r.Path).s) = "shelf"
    /\ ~verifyPath(f, ShelfTarget(s, r), s.TrustedRoot).err
    /\ ~Stat(f, ShelfTarget(s, r)).err
    /\ ~getPathType(f, ShelfTarget(s, r)).panic
    /\ getPathType(f, ShelfTarget(s, r)).type # pathTypeFile

ConcInit ==
    /\ fs = Tree({1, 4})
    /\ opds \in [TrustedRoot : {RootPath}, HideCalibreFiles : {FALSE},
                 HideDotFiles : BOOLEAN, NoCache : {FALSE}]
    /\ TimeNow = 1
    /\ req = [g \in Goroutines |-> NoRequest]
    /\ resp = [g \in Goroutines |-> NoResponse]
    /\ pc = [g \in Goroutines |-> Position("idle", <<>>, NoAcc)]

\* The server hands the request r to the goroutine g, which has none.
Accept(g, r) ==
    /\ pc[g].state \in {"idle", "done"}
    /\ req' = [req EXCEPT ![g] = r]
    /\ UNCHANGED <<fs, opds, TimeNow>>

\* A search arrives.  makeSearchResult, lines 209-216: the builder and the
\* counter are set up and WalkDir starts.
ConcStartSearch(g, r) ==
    /\ Accept(g, r)
    /\ IsSearch(r)
    /\ resp' = [resp EXCEPT ![g] = NoResponse]
    /\ pc' = [pc EXCEPT ![g].state = "walking",
                        ![g].todo = WalkDir(fs, opds.TrustedRoot),
                        ![Frame(g)].acc = NoAcc]

\* Lines 217-245: the callback on the next visit of the walk.
ConcWalkStep(g) ==
    /\ pc[g].state = "walking"
    /\ pc[g].todo # <<>>
    /\ ~Head(pc[g].todo).err
    /\ pc' = [pc EXCEPT ![g].todo = Tail(pc[g].todo),
                        ![Frame(g)].acc =
                            WalkFrame(pc[Frame(g)].acc,
                                makeSearchEntry(opds, req[g].q, Head(pc[g].todo),
                                    Cut(Head(pc[g].todo).path, opds.TrustedRoot \o Slash).after,
                                    pc[Frame(g)].acc))]
    /\ UNCHANGED <<fs, opds, TimeNow, req, resp>>

\* Lines 247 and 151-175: the walk is over, the feed is built and written.
ConcWalkEnd(g) ==
    /\ pc[g].state = "walking"
    /\ IF pc[g].todo = <<>> THEN TRUE ELSE Head(pc[g].todo).err
    /\ resp' = [resp EXCEPT ![g] =
                   HandleSearchOf(opds, makeSearchResultOf(TimeNow, req[g].Path, req[g].q,
                                                           pc[Frame(g)].acc))]
    /\ pc' = [pc EXCEPT ![g].state = "done", ![g].todo = <<>>, ![Frame(g)].acc = NoAcc]
    /\ UNCHANGED <<fs, opds, TimeNow, req>>

\* A request for a directory arrives.  makeFeed, lines 179-186: the builder
\* is set up and the directory read.
ConcStartFeed(g, r) ==
    /\ Accept(g, r)
    /\ IsListing(opds, fs, r)
    /\ resp' = [resp EXCEPT ![g] = NoResponse]
    /\ pc' = [pc EXCEPT ![g].state = "listing",
                        ![g].todo = ReadDir(fs, ShelfTarget(opds, r)),
                        ![Frame(g)].acc = [NoAcc EXCEPT !.ops = <<"ReadDir">>]]

\* Lines 187-204: one turn of the loop over the directory entries.
ConcFeedStep(g) ==
    /\ pc[g].state = "listing"
    /\ pc[g].todo # <<>>
    /\ ~pc[Frame(g)].acc.panic
    /\ pc' = [pc EXCEPT ![g].todo = Tail(pc[g].todo),
                        ![Frame(g)].acc =
                            IF fileShouldBeIgnored(Head(pc[g].todo).name,
                                                   opds.HideCalibreFiles, opds.HideDotFiles)
                            THEN pc[Frame(g)].acc
                            ELSE FeedFrame(pc[Frame(g)].acc,
                                     makeFeedEntry(pc[Frame(g)].acc, req[g], Head(pc[g].todo).name,
                                         Join(ShelfTarget(opds, req[g]), Head(pc[g].todo).name),
                                         getPathType(fs, Join(ShelfTarget(opds, req[g]),
                                                               Head(pc[g].todo).name))))]
    /\ UNCHANGED <<fs, opds, TimeNow, req, resp>>

\* Lines 205 and 157-175: the loop is over, the feed is built and written.
ConcFeedEnd(g) ==
    /\ pc[g].state = "listing"
    /\ pc[g].todo = <<>> \/ pc[Frame(g)].acc.panic
    /\ resp' = [resp EXCEPT ![g] =
                   HandleDir(opds, getPathType(fs, ShelfTarget(opds, req[g])),
                             makeFeedOf(TimeNow, req[g], pc[Frame(g)].acc))]
    /\ pc' = [pc EXCEPT ![g].state = "done", ![g].todo = <<>>, ![Frame(g)].acc = NoAcc]
    /\ UNCHANGED <<fs, opds, TimeNow, req>>

\* A request that builds no feed of entries arrives: Handler runs through.
ConcHandleOther(g, r) ==
    /\ Accept(g, r)
    /\ ~IsSearch(r)
    /\ ~IsListing(opds, fs, r)
    /\ resp' = [resp EXCEPT ![g] = Handler(opds, fs, TimeNow, r)]
    /\ pc' = [pc EXCEPT ![g].state = "done"]

ConcNext ==
    \/ \E g \in Goroutines : \E r \in ConcRequests : ConcStartSearch(g, r)
    \/ \E g \in Goroutines : ConcWalkStep(g)
    \/ \E g \in Goroutines : ConcWalkEnd(g)
    \/ \E g \in Goroutines : \E r \in ConcRequests : ConcStartFeed(g, r)
    \/ \E g \in Goroutines : ConcFeedStep(g)
    \/ \E g \in Goroutines : ConcFeedEnd(g)
    \/ \E g \in Goroutines : \E r \in ConcRequests : ConcHandleOther(g, r)

ConcSpec == ConcInit /\ [][ConcNext]_vars

(***************************************************************************)
(* The tree changing under a request.  The library is a directory other    *)
(* programs write to: between the guard of line 115 and the stat of line   *)
(* 124 a file or directory can be removed.  Handler on a /shelf path is    *)
(* taken in two steps, the guard and the rest, over the trees and requests *)
(* of EdgeSpec.                                                            *)
(***************************************************************************)
\* Lines 76-120: Handler up to the guard.  A request that is not for a path
\* below the root, or that the guard rejects, is answered at once.
HandleBegin ==
    /\ pc = "pending"
    /\ IF /\ Route(PathUnescape(req.Path).s) = "shelf"
          /\ ~verifyPath(fs, ShelfTarget(opds, req), opds.TrustedRoot).err
       THEN /\ pc' = "guarded"
            /\ resp' = resp
       ELSE /\ pc' = "done"
            /\ resp' = Handler(opds, fs, TimeNow, req)
    /\ UNCHANGED <<fs, opds, TimeNow, req>>

\* Another program removes p, with all below it, while a request is between
\* the guard and the stat.  One removal in a run.
Remove(p) ==
    /\ pc = "guarded"
    /\ fs \in {EdgeTree(on) : on \in SUBSET (1..Len(EdgeGroups))}
    /\ p \in DOMAIN fs
    /\ HasPrefix(p, opds.TrustedRoot \o Slash)
    /\ fs' = [q \in {x \in DOMAIN fs : x # p /\ ~HasPrefix(x, p \o Slash)} |-> fs[q]]
    /\ UNCHANGED <<opds, TimeNow, req, resp, pc>>

\* Lines 122-175: the guard has passed; the stat, the classification and
\* the file or feed, on the tree as it is now.
HandleRest ==
    /\ pc = "guarded"
    /\ resp' = HandlePathOf(opds, fs, TimeNow, req, ShelfTarget(opds, req),
                            [path |-> ShelfTarget(opds, req), err |-> FALSE],
                            Stat(fs, ShelfTarget(opds, req)),
                            getPathType(fs, ShelfTarget(opds, req)))
    /\ pc' = "done"
    /\ UNCHANGED <<fs, opds, TimeNow, req>>

RaceNext ==
    \/ \E r \in EdgeRequests : Receive(r)
    \/ HandleBegin
    \/ \E p \in DOMAIN EdgeTree(1..Len(EdgeGroups)) : Remove(p)
    \/ HandleRest

RaceSpec == EdgeInit /\ [][RaceNext]_vars
(***************************************************************************)
(* Properties.  Each is about the state after Handle: the request, the     *)
(* tree and configuration it ran on, and the response it left.             *)
(***************************************************************************)
Done == pc = "done"

Under(p, root) == p = root \/ HasPrefix(p, root \o Slash)

\* The request went to the /shelf route.
InShelf ==
    /\ Done
    /\ ~PathUnescape(req.Path).err
    /\ HasPrefix(PathUnescape(req.Path).s, shelfPath)

\* What follows /shelf in the decoded path.
Rest == SubSeq(PathUnescape(req.Path).s, Len(shelfPath) + 1, Len(PathUnescape(req.Path).s))

\* Rest joined to the trusted root and lexically normalised.
Requested == Join(opds.TrustedRoot, Rest)

\* Where Requested really is, links resolved.
Canonical == EvalSymlinks(fs, Requested)

IsBrowseFeed == resp.body.kind \in {"acquisitionfeed", "navigationfeed"}

Entries == resp.body.feed.entries

NameHidden(name) == fileShouldBeIgnored(name, opds.HideCalibreFiles, opds.HideDotFiles)

Below == {p \in DOMAIN fs : HasPrefix(p, opds.TrustedRoot \o Slash)}

RelSegs(p) == SplitSlash(Cut(p, opds.TrustedRoot \o Slash).after)

\* A directory between the root and p is hidden.
UnderHiddenDir(p) == \E i \in 1..(Len(RelSegs(p)) - 1) : NameHidden(RelSegs(p)[i])

Matches(p, q) == Contains(ToLower(Base(p)), ToLower(q))

NoTwice(es) == \A i, j \in 1..Len(es) : es[i].path = es[j].path => i = j

C3_DirectRequest ==
    (/\ InShelf
     /\ opds.HideDotFiles
     /\ Requested \in Below
     /\ fs[Requested].kind = "file"
     /\ HasPrefix(Base(Requested), Dot))
        => resp.status = 404 /\ resp.body.kind = "none"

\* With HideDotFiles, no browse feed has an entry for a file whose name
\* starts with a dot.
C3_Listing ==
    (InShelf /\ opds.HideDotFiles /\ IsBrowseFeed)
        => \A i \in 1..Len(Entries) :
              Entries[i].rel # "subsection" => ~HasPrefix(Entries[i].title, Dot)

C5_SearchNeedsQuery ==
    (Done /\ req.Path = searchPath)
        => IF req.q = <<>>
           THEN /\ resp.err
                /\ resp.status = NoStatus
                /\ resp.ctype = ""
                /\ ~resp.nocache
                /\ resp.body = NoBody
                /\ resp.ops = <<>>
           ELSE /\ ~resp.err
                /\ resp.status = 200
                /\ resp.ctype = acquisitionType
                /\ resp.body.kind = "searchresult"

\* /search came without q, on a configuration that asks for the no-cache
\* headers, and Handler returned its error.
C5_Witness ==
    /\ Done
    /\ req.Path = searchPath
    /\ req.q = <<>>
    /\ opds.NoCache
    /\ resp.err

SearchDone == Done /\ req.Path = searchPath /\ req.q # <<>> /\ resp.body.kind = "searchresult"

\* C6: the search-result feed has exactly one entry for each non-hidden
\* file (no directory) below the root whose base name contains q, letter
\* case ignored, no other entry, and totalResults is the number of entries.
C6_SearchExact ==
    SearchDone
        => /\ \A i \in 1..Len(Entries) :
                 /\ Entries[i].path \in Below
                 /\ fs[Entries[i].path].kind # "dir"
                 /\ ~NameHidden(Base(Entries[i].path))
                 /\ Matches(Entries[i].path, req.q)
           /\ \A p \in Below :
                 (/\ fs[p].kind # "dir"
                  /\ ~NameHidden(Base(p))
                  /\ ~UnderHiddenDir(p)
                  /\ Matches(p, req.q))
                     => \E i \in 1..Len(Entries) : Entries[i].path = p
           /\ NoTwice(Entries)
           /\ resp.body.feed.total = Len(Entries)

\* totalResults is the number of entries of the search-result feed.
C6_TotalIsCount == SearchDone => resp.body.feed.total = Len(Entries)

\* C7: no file below a directory hidden by the visibility policy is an
\* entry of the search-result feed or of the newest feed: the walk does not
\* descend into a hidden directory.
C7_HiddenDirsPruned ==
    (Done /\ (resp.body.kind = "searchresult" \/ (req.Path = newPath /\ resp.status = 200)))
        => \A i \in 1..Len(Entries) : ~UnderHiddenDir(Entries[i].path)

\* The newest feed alone has no entry below a hidden directory.
C7_NewestPruned ==
    (Done /\ req.Path = newPath /\ resp.status = 200)
        => \A i \in 1..Len(Entries) : ~UnderHiddenDir(Entries[i].path)

\* The plain files below the root that the policy does not hide.
PlainVisible ==
    {p \in Below : fs[p].kind = "file" /\ ~NameHidden(Base(p)) /\ ~UnderHiddenDir(p)}

\* a comes before b in the newest feed: modified later, or at the same
\* time with the lower name.
Before(a, b) ==
    \/ fs[a].mtime > fs[b].mtime
    \/ fs[a].mtime = fs[b].mtime /\ StrLess(Base(a), Base(b))

DirInRoot ==
    /\ InShelf
    /\ Canonical.ok
    /\ Under(Canonical.path, opds.TrustedRoot)
    /\ fs[Canonical.path].kind = "dir"

FeedKindFits ==
    IF getPathType(fs, Requested).type = pathTypeDirOfFiles
    THEN resp.ctype = acquisitionType /\ resp.body.kind = "acquisitionfeed"
    ELSE resp.ctype = navigationType /\ resp.body.kind = "navigationfeed"

C10_FeedKindOfAnswers == (DirInRoot /\ ~resp.panic) => FeedKindFits

(***************************************************************************)
(* Properties of the classifiers, of the state after a call of CallSpec.   *)
(***************************************************************************)
Called(fn) == pc = "called" /\ req.fn = fn

ChildrenOf(dir) == {q \in DOMAIN fs : q # Slash /\ Dir(q) = dir}

HasMark(name) ==
    \E m \in { <<".","o","p","f">>, <<"c","o","v","e","r",".">>, <<"m","e","t","a","d","a","t","a",".","d","b">>, <<"m","e","t","a","d","a","t","a","_","d","b","_","p","r","e","f","s","_","b","a","c","k","u","p",".","j","s","o","n">>,
               <<".","c","a","l","t","r","a","s","h">>, <<".","c","a","l","n","o","t","e","s">> } :
        \E i \in 1..Len(name) :
            i + Len(m) - 1 <= Len(name) /\ SubSeq(name, i, i + Len(m) - 1) = m

\* C14: fileShouldBeIgnored takes the first rule that matches: "." and ".."
\* are never hidden; with hideDotFiles a name that starts with a dot is
\* hidden; with hideCalibreFiles a name that holds one of the calibre marks
\* anywhere is hidden; every other name is visible (so with both options
\* off no name is hidden).
C14_RulesInOrder ==
    Called("fileShouldBeIgnored")
        => resp = IF req.arg = <<".">> \/ req.arg = <<".",".">> THEN FALSE
                  ELSE IF opds.HideDotFiles /\ req.arg # <<>> /\ req.arg[1] = "." THEN TRUE
                  ELSE IF opds.HideCalibreFiles /\ HasMark(req.arg) THEN TRUE
                  ELSE FALSE

\* ".." was asked about with both options on, and is not hidden.
C14_Witness ==
    /\ Called("fileShouldBeIgnored")
    /\ req.arg = <<".",".">>
    /\ opds.HideDotFiles
    /\ opds.HideCalibreFiles
    /\ resp = FALSE

(***************************************************************************)
(* Properties of the handler, of the state after Handle.                   *)
(***************************************************************************)
DeliversFeed == resp.body.kind \in {"acquisitionfeed", "navigationfeed", "searchresult"}

DeliversFile == resp.body.kind = "file"

C12_NoCacheOnFeeds ==
    Done => IF opds.NoCache THEN DeliversFeed => resp.nocache ELSE ~resp.nocache

C16_GuardFirst ==
    (/\ Done
     /\ ~PathUnescape(req.Path).err
     /\ PathUnescape(req.Path).s \notin {searchDefinitionPath, rootPath, searchPath})
        => /\ resp.ops # <<>> => resp.ops[1] = "EvalSymlinks"
           /\ (InShelf /\ verifyPath(fs, Requested, opds.TrustedRoot).err)
                 => resp.ops = <<"EvalSymlinks">> /\ resp.status = 404

\* /shelf/../o, a directory that exists outside the root, was rejected after
\* the one call of the guard.
C16_Witness ==
    /\ Done
    /\ req.Path = <<"/","s","h","e","l","f","/",".",".","/","o">>
    /\ OtherPath \in DOMAIN fs
    /\ resp.status = 404
    /\ resp.ops = <<"EvalSymlinks">>

Unreadable == {p \in Below : fs[p].kind = "lockeddir"}

InUnreadable(p) == \E d \in Unreadable : HasPrefix(p, d \o Slash)

\* C17: with a directory below the root that cannot be read, a search is
\* answered 200 with a search result that has no entry from that directory
\* and an entry for every visible matching file of the readable ones, also
\* those WalkDir meets after it; the browse request for the unreadable
\* directory is answered 200 with a feed of no entries.
C17_UnreadableDirSkipped ==
    /\ (Done /\ req.Path = searchPath /\ req.q # <<>> /\ Unreadable # {})
          => /\ resp.status = 200
             /\ resp.body.kind = "searchresult"
             /\ \A i \in 1..Len(Entries) : ~InUnreadable(Entries[i].path)
             /\ \A p \in Below :
                   (/\ fs[p].kind = "file"
                    /\ ~InUnreadable(p)
                    /\ ~NameHidden(Base(p))
                    /\ ~UnderHiddenDir(p)
                    /\ ~NameHidden(Cut(p, opds.TrustedRoot \o Slash).after)
                    /\ Matches(p, req.q))
                       => \E i \in 1..Len(Entries) : Entries[i].path = p
    /\ (InShelf /\ Requested \in Unreadable)
          => resp.status = 200 /\ IsBrowseFeed /\ Entries = <<>>

\* The browse half of C17 alone.
C17_BrowseOfUnreadable ==
    (InShelf /\ Requested \in Unreadable)
        => resp.status = 200 /\ IsBrowseFeed /\ Entries = <<>>

\* The request a client sends for an href of a feed: the href itself, or
\* the href resolved against the server's root when it has no leading slash.
HrefURI(href) == IF HasPrefix(href, Slash) THEN href ELSE Slash \o href

Follow(e) == Handler(opds, fs, TimeNow, Request(HrefURI(e.href), <<>>))

\* The response r delivers the item the entry e stands for.
ReturnsItem(e, r) ==
    /\ ~r.err
    /\ ~r.panic
    /\ r.status = 200
    /\ IF Stat(fs, e.path).isDir
       THEN /\ r.body.kind \in {"acquisitionfeed", "navigationfeed"}
            /\ \A j \in 1..Len(r.body.feed.entries) : Dir(r.body.feed.entries[j].path) = e.path
       ELSE r.body.kind = "file" /\ r.body.file = e.path

C19_BrowseRoundTrip ==
    (Done /\ resp.status = 200 /\ InShelf /\ IsBrowseFeed)
        => \A i \in 1..Len(Entries) : ReturnsItem(Entries[i], Follow(Entries[i]))

EntrySet(r) ==
    IF r.body.kind \in {"acquisitionfeed", "navigationfeed"}
    THEN {r.body.feed.entries[i] : i \in 1..Len(r.body.feed.entries)}
    ELSE {}

C20_NoSharedId ==
    (InShelf /\ IsBrowseFeed)
        => \A uri \in {u \in EdgeRequestURIs : HasPrefix(u, shelfPath)} :
              \A e1 \in EntrySet(resp) :
                 \A e2 \in EntrySet(Handler(opds, fs, TimeNow, Request(uri, <<>>))) :
                    (e1.id = e2.id) => (e1.path = e2.path)

(***************************************************************************)
(* Properties of ConcSpec.                                                 *)
(***************************************************************************)
\* C13: under every interleaving of the goroutines, the response each
\* request gets is the response Handler gives when it handles that request
\* alone on the same tree, configuration and clock.
C13_Independent ==
    \A g \in Goroutines :
        pc[g].state = "done" => resp[g] = Handler(opds, fs, TimeNow, req[g])

\* No step of any handling changes the configuration, the trusted root, the
\* tree or the clock.
C13_ConfigUnchanged == [][opds' = opds /\ fs' = fs /\ TimeNow' = TimeNow]_vars

\* Goroutine 1 has answered a search with entries while goroutine 2 is in
\* the middle of its own walk, with entries found and visits to come.
C13_Witness ==
    /\ pc[1].state = "done"
    /\ resp[1].body.kind = "searchresult"
    /\ resp[1].body.feed.entries # <<>>
    /\ pc[2].state = "walking"
    /\ pc[2].todo # <<>>
    /\ pc[2].acc.entries # <<>>

(***************************************************************************)
(* Properties of the outcome of Handler.                                   *)
(***************************************************************************)
\* Handler returned an error and wrote nothing.
ErrorOnly == resp.err /\ resp.status = NoStatus /\ resp.body = NoBody

\* Handler wrote a response and returned nil.
ResponseOnly == ~resp.err /\ resp.status # NoStatus

C21_OnFixedTree ==
    (Done /\ ~resp.panic) => /\ ErrorOnly \/ ResponseOnly
                             /\ resp.status = 404 => ~resp.err

\* Taken in two steps, Handler answers as in one on the tree of the second
\* step whenever the guard passes on that tree too.
C21_StepsAgree ==
    [][(/\ pc = "guarded"
        /\ pc' = "done"
        /\ ~verifyPath(fs, ShelfTarget(opds, req), opds.TrustedRoot).err)
          => resp' = Handler(opds, fs, TimeNow, req)]_vars

=============================================================================
